---- MODULE Spec2Model ----
(***************************************************************************)
(* Model of src/main.py: the AOTS spot scanner.                            *)
(*                                                                         *)
(* Strings are sequences of one-character strings, so that len(), join,    *)
(* split and replace are computed character by character.  The emoji of    *)
(* the default prefix is one code point in Python; it is written "o" here. *)
(*                                                                         *)
(* Three specifications:                                                   *)
(*   SpecPack      chunk_symbols_into_fields applied to bounded inputs     *)
(*   SpecClassify  get_indicators / is_aots applied to bounded responses   *)
(*   Spec          the on_ready scan loop(s) on the asyncio event loop     *)
(***************************************************************************)
EXTENDS Integers, Sequences, FiniteSets, TLC

VARIABLES
    \* --- SpecPack: one call of chunk_symbols_into_fields
    pk,               \* "input" before the call, "done" after it returned
    symbols,          \* argument: list of symbols
    prefix,           \* argument: prefix string
    fields,           \* return value: list of chunk strings
    processed_count,  \* the local processed_count at return
    \* --- SpecClassify: one call of is_aots
    ck,               \* "input" before the call, "done" after it returned
    resp,             \* what client.get_klines does for the symbol
    latest,           \* the value get_indicators returned
    verdict,          \* the value is_aots returned
    \* --- Spec: the scan loops started by on_ready
    universe,         \* spot_symbols, loaded once at import
    loops,            \* one record per on_ready invocation, see NewLoop
    sent,             \* the embed last delivered to the channel
    env,              \* which settings the environment provides
    proc,             \* "start", "crashed", "imported" or "running"
    web               \* the Flask thread: listening, port, last reply

packVars == <<pk, symbols, prefix, fields, processed_count>>
classVars == <<ck, resp, latest, verdict>>
scanVars == <<universe, loops, sent, env, proc, web>>
vars == <<packVars, classVars, scanVars>>

\* get_indicators' None
None == [avail |-> FALSE]

(* The variables of a specification that is not running. *)
\* the Flask thread before Thread.start (line 175)
WebOff == [up |-> FALSE, port |-> 0, reply |-> <<>>]

ScanIdle ==
    /\ universe = <<>>
    /\ loops = <<>>
    /\ sent = <<>>
    /\ env = [token |-> TRUE, key |-> TRUE, secret |-> TRUE, port |-> TRUE,
              exchange |-> TRUE]
    /\ proc = "idle"
    /\ web = WebOff

ClassIdle ==
    /\ ck = "idle"
    /\ resp = [kind |-> "error"]
    /\ latest = None
    /\ verdict = FALSE

PackIdle ==
    /\ pk = "idle"
    /\ symbols = <<>>
    /\ prefix = <<>>
    /\ fields = <<>>
    /\ processed_count = 0

---------------------------------------------------------------------------
(* Program constants.  Durations are exact, <<numerator, denominator>> in  *)
(* seconds.                                                                *)

REQUEST_SLEEP == <<5, 100>>
SLEEP_SECONDS == <<3600, 1>>
NoTimer == <<0, 1>>
KLIMIT == 150
DefaultPort == 8080
EnvPort == 5000     \* sample value of the PORT variable when it is set
W20 == 20
W50 == 50
W100 == 100

(* Bounds of the model.  MAX_FIELD_CHAR and MAX_EMBED_FIELDS are 1000 and   *)
(* 20 in the source (lines 31-32); they are scaled down so that the cap    *)
(* and the chunk limit are reached by short lists.                         *)
MAX_FIELD_CHAR == 6
MAX_EMBED_FIELDS == 3
MaxSyms == 4        \* longest symbol list handed to the packer
MaxSymLen == 5      \* longest symbol handed to the packer
MaxReady == 2       \* on_ready events delivered
MaxCycles == 2      \* cycles started by all scan loops together
MaxRuns == 4        \* runs of equal closes in a candle series
RunLen == 25        \* length of a long run
MaxPrice == 2       \* closing prices are 1..MaxPrice

---------------------------------------------------------------------------
(* Python string primitives. *)

SEP == <<",", " ">>
NL == <<"\n">>
DefaultPrefix == <<"o", " ">>
QUOTE == <<"U", "S", "D", "T">>

RECURSIVE Join(_, _)
\* sep.join(list)
Join(list, sep) ==
    IF list = <<>> THEN <<>>
    ELSE IF Len(list) = 1 THEN list[1]
    ELSE list[1] \o sep \o Join(Tail(list), sep)

Digit(d) == CASE d = 0 -> "0" [] d = 1 -> "1" [] d = 2 -> "2" [] d = 3 -> "3"
              [] d = 4 -> "4" [] d = 5 -> "5" [] d = 6 -> "6" [] d = 7 -> "7"
              [] d = 8 -> "8" [] d = 9 -> "9"

RECURSIVE IntToStr(_)
\* f"{n}" for n >= 0
IntToStr(n) ==
    IF n < 10 THEN <<Digit(n)>> ELSE IntToStr(n \div 10) \o <<Digit(n % 10)>>

NoteHead == <<".", ".", ".", "a", "n", "d", " ">>
NoteTail == <<" ", "m", "o", "r", "e">>

\* f"...and {remaining} more"
Note(remaining) == NoteHead \o IntToStr(remaining) \o NoteTail

StartsWith(s, p) == Len(s) >= Len(p) /\ SubSeq(s, 1, Len(p)) = p

RECURSIVE Replace(_, _)
\* s.replace(old, "") for a non-empty old
Replace(s, old) ==
    IF s = <<>> THEN <<>>
    ELSE IF StartsWith(s, old)
         THEN Replace(SubSeq(s, Len(old) + 1, Len(s)), old)
         ELSE <<s[1]>> \o Replace(Tail(s), old)

---------------------------------------------------------------------------
(* chunk_symbols_into_fields *)

PackStart(pre) ==
    [fields |-> <<>>, curr_list |-> <<>>, curr_len |-> Len(pre),
     processed_count |-> 0, stopped |-> FALSE]

\* line 77
Token(curr_list, sym) == (IF curr_list # <<>> THEN SEP ELSE <<>>) \o sym

\* faulty variant: a chunk of exactly MAX_FIELD_CHAR characters is refused
Fits_strict(curr_len, token) == curr_len + Len(token) < MAX_FIELD_CHAR

\* line 78
Fits(curr_len, token) == curr_len + Len(token) <= MAX_FIELD_CHAR

\* faulty variant: the chunk limit is never detected
CapReached_never(fs) == FALSE

\* line 86
CapReached(fs) == Len(fs) >= MAX_EMBED_FIELDS

\* one iteration of the for loop, lines 77-87
PackStep(st, sym, pre) ==
    IF st.stopped THEN st
    ELSE LET token == Token(st.curr_list, sym)
         IN  IF Fits(st.curr_len, token)
             THEN [st EXCEPT !.curr_list = Append(@, sym),
                             !.curr_len = @ + Len(token),
                             !.processed_count = @ + 1]
             ELSE LET fs == Append(st.fields, pre \o Join(st.curr_list, SEP))
                  IN  [fields |-> fs,
                       curr_list |-> <<sym>>,
                       curr_len |-> Len(pre) + Len(sym),
                       processed_count |-> st.processed_count + 1,
                       stopped |-> CapReached(fs)]

RECURSIVE PackLoop(_, _, _)
\* the for loop, lines 76-87
PackLoop(st, syms, pre) ==
    IF syms = <<>> THEN st
    ELSE PackLoop(PackStep(st, Head(syms), pre), Tail(syms), pre)

\* lines 88-89
PackFlush(st, pre) ==
    IF st.curr_list # <<>> /\ Len(st.fields) < MAX_EMBED_FIELDS
    THEN Append(st.fields, pre \o Join(st.curr_list, SEP))
    ELSE st.fields

\* faulty variant: the note takes a slot of its own when the list is full
PackNote_own(fs, remaining) ==
    IF remaining > 0
    THEN IF Len(fs) <= MAX_EMBED_FIELDS
         THEN Append(fs, Note(remaining))
         ELSE [fs EXCEPT ![Len(fs)] = @ \o NL \o Note(remaining)]
    ELSE fs

\* lines 90-96
PackNote(fs, remaining) ==
    IF remaining > 0
    THEN IF Len(fs) < MAX_EMBED_FIELDS
         THEN Append(fs, Note(remaining))
         ELSE [fs EXCEPT ![Len(fs)] = @ \o NL \o Note(remaining)]
    ELSE fs

\* the local processed_count when the function returns
PackProcessed(syms, pre) == PackLoop(PackStart(pre), syms, pre).processed_count

chunk_symbols_into_fields(syms, pre) ==
    LET st == PackLoop(PackStart(pre), syms, pre)
        remaining == Len(syms) - st.processed_count
    IN  PackNote(PackFlush(st, pre), remaining)

---------------------------------------------------------------------------
(* get_indicators and is_aots.                                             *)
(*                                                                         *)
(* A response is what client.get_klines does for one symbol:               *)
(*   "error"      the call raises (network or API failure)                 *)
(*   "empty"      it returns an empty list                                 *)
(*   "malformed"  it returns rows that DataFrame(...) or astype(float)     *)
(*                rejects                                                  *)
(*   "ok"         it returns candles whose closes are resp.closes,         *)
(*                oldest first                                             *)
(* A mean is kept exact, as the pair <<sum, count>>.                       *)

RECURSIVE Sum(_)
Sum(s) == IF s = <<>> THEN 0 ELSE Head(s) + Sum(Tail(s))

Min(a, b) == IF a <= b THEN a ELSE b

\* faulty variant: the sum of a short series is divided by the window length
RollingMeanLast_fullWindow(closes, w) ==
    LET n == Min(w, Len(closes))
    IN  <<Sum(SubSeq(closes, Len(closes) - n + 1, Len(closes))), w>>

\* close.rolling(w, min_periods=1).mean() at the last row
RollingMeanLast(closes, w) ==
    LET n == Min(w, Len(closes))
    IN  <<Sum(SubSeq(closes, Len(closes) - n + 1, Len(closes))), n>>

\* a > b for exact means
Gt(a, b) == a[1] * b[2] > b[1] * a[2]

get_indicators(r) ==
    IF r.kind = "error" THEN None            \* lines 60-62
    ELSE IF r.kind = "empty" THEN None       \* lines 47-48
    ELSE IF r.kind = "malformed" THEN None   \* lines 54-55, 60-62
    ELSE [avail |-> TRUE,
          MA20 |-> RollingMeanLast(r.closes, W20),
          MA50 |-> RollingMeanLast(r.closes, W50),
          MA100 |-> RollingMeanLast(r.closes, W100)]

\* faulty variant: one ascending pair is enough
is_aots_any(r) ==
    LET l == get_indicators(r)
    IN  IF ~l.avail THEN FALSE
        ELSE Gt(l.MA20, l.MA50) \/ Gt(l.MA50, l.MA100)

is_aots(r) ==
    LET l == get_indicators(r)
    IN  IF ~l.avail THEN FALSE
        ELSE Gt(l.MA20, l.MA50) /\ Gt(l.MA50, l.MA100)

---------------------------------------------------------------------------
(* SpecClassify: is_aots on bounded responses. *)

Run(p, n) == [i \in 1..n |-> p]

RECURSIVE Flatten(_)
Flatten(runs) ==
    IF runs = <<>> THEN <<>>
    ELSE Run(Head(runs)[1], Head(runs)[2]) \o Flatten(Tail(runs))

\* candle series: up to MaxRuns runs of equal closes, each 1 or RunLen long
RunShapes == (1..MaxPrice) \X {1, RunLen}
SeriesSet ==
    {c \in {Flatten(rs) : rs \in UNION {[1..k -> RunShapes] : k \in 1..MaxRuns}} :
        Len(c) <= KLIMIT}

Responses ==
    {[kind |-> "error"], [kind |-> "empty"], [kind |-> "malformed"]}
        \cup {[kind |-> "ok", closes |-> c] : c \in SeriesSet}

InitClassify ==
    /\ ck = "input"
    /\ resp \in Responses
    /\ latest = None
    /\ verdict = FALSE
    /\ PackIdle
    /\ ScanIdle

CallIsAots ==
    /\ ck = "input"
    /\ ck' = "done"
    /\ latest' = get_indicators(resp)
    /\ verdict' = is_aots(resp)
    /\ UNCHANGED <<resp, packVars, scanVars>>

NextClassify == CallIsAots

SpecClassify == InitClassify /\ [][NextClassify]_vars

\* C10: is_aots returns true iff a snapshot is available and
\* MA20 > MA50 and MA50 > MA100, both strict; an unavailable snapshot gives
\* false.
C10_StrictAscending ==
    ck = "done" =>
        /\ verdict \in BOOLEAN
        /\ resp.kind # "ok" => ~latest.avail
        /\ ~latest.avail => verdict = FALSE
        /\ latest.avail =>
              (verdict <=>
                  /\ latest.MA20[1] * latest.MA50[2] > latest.MA50[1] * latest.MA20[2]
                  /\ latest.MA50[1] * latest.MA100[2] > latest.MA100[1] * latest.MA50[2])

\* C10 witness: a series classified as a tiered setup.
C10_Witness == ck = "done" /\ latest.avail /\ verdict = TRUE

\* C19: a series of at most 50 closes has equal MA50 and MA100 and is never
\* classified as a tiered setup; a classified series has more than 50 closes.
C19_ShortSeriesNeverMatch ==
    ck = "done" =>
        /\ (resp.kind = "ok" /\ Len(resp.closes) <= W50) =>
              /\ latest.avail
              /\ latest.MA50 = latest.MA100
              /\ verdict = FALSE
        /\ verdict = TRUE => (resp.kind = "ok" /\ Len(resp.closes) > W50)

\* C19 witness: exactly 50 closes whose MA20 is above MA50, yet no match.
C19_Witness ==
    /\ ck = "done"
    /\ resp.kind = "ok"
    /\ Len(resp.closes) = W50
    /\ latest.MA20[1] * latest.MA50[2] > latest.MA50[1] * latest.MA20[2]
    /\ verdict = FALSE

---------------------------------------------------------------------------
(* SpecPack: the packer on bounded inputs. *)

Letters == {"A", "B"}
Repeat(c, n) == [i \in 1..n |-> c]
PackSymbols == {Repeat(c, n) : c \in Letters, n \in 1..MaxSymLen}
\* the scenario of the specification: ["AAA", "BBB", "CCC"] with prefix "X "
ScenarioList == <<Repeat("A", 3), Repeat("B", 3), Repeat("C", 3)>>
PackLists == UNION {[1..n -> PackSymbols] : n \in 0..MaxSyms} \cup {ScenarioList}
PackPrefixes == {DefaultPrefix, <<"X", " ">>}

InitPack ==
    /\ pk = "input"
    /\ symbols \in PackLists
    /\ prefix \in PackPrefixes
    /\ fields = <<>>
    /\ processed_count = 0
    /\ ClassIdle
    /\ ScanIdle

CallPack ==
    /\ pk = "input"
    /\ pk' = "done"
    /\ fields' = chunk_symbols_into_fields(symbols, prefix)
    /\ processed_count' = PackProcessed(symbols, prefix)
    /\ UNCHANGED <<symbols, prefix, classVars, scanVars>>

NextPack == CallPack

SpecPack == InitPack /\ [][NextPack]_vars

---------------------------------------------------------------------------
(* Reading the packer's output back, as a consumer of the chunks would. *)

RECURSIVE Find(_, _, _)
\* s.find(sub) searched from position i (1-based); 0 when absent
Find(s, sub, i) ==
    IF i + Len(sub) - 1 > Len(s) THEN 0
    ELSE IF SubSeq(s, i, i + Len(sub) - 1) = sub THEN i
    ELSE Find(s, sub, i + 1)

RECURSIVE Split(_, _)
\* s.split(sep)
Split(s, sep) ==
    LET k == Find(s, sep, 1)
    IN  IF k = 0 THEN <<s>>
        ELSE <<SubSeq(s, 1, k - 1)>> \o Split(SubSeq(s, k + Len(sep), Len(s)), sep)

DigitVal(c) == CASE c = "0" -> 0 [] c = "1" -> 1 [] c = "2" -> 2 [] c = "3" -> 3
                 [] c = "4" -> 4 [] c = "5" -> 5 [] c = "6" -> 6 [] c = "7" -> 7
                 [] c = "8" -> 8 [] c = "9" -> 9

RECURSIVE StrToInt(_)
StrToInt(s) ==
    IF s = <<>> THEN 0
    ELSE 10 * StrToInt(SubSeq(s, 1, Len(s) - 1)) + DigitVal(s[Len(s)])

\* the overflow note carried by a chunk: the text after the newline, or the
\* whole chunk when the chunk is a note of its own; <<>> when there is none
NoteText(chunk) ==
    LET k == Find(chunk, NL, 1)
    IN  IF k > 0 THEN SubSeq(chunk, k + 1, Len(chunk))
        ELSE IF StartsWith(chunk, NoteHead) THEN chunk
        ELSE <<>>

\* the chunk's text without the overflow note
ChunkBody(chunk) ==
    LET k == Find(chunk, NL, 1)
    IN  IF k > 0 THEN SubSeq(chunk, 1, k - 1)
        ELSE IF StartsWith(chunk, NoteHead) THEN <<>>
        ELSE chunk

\* the symbols a chunk shows after its prefix
ChunkSymbols(chunk, pre) ==
    LET body == ChunkBody(chunk)
        content == IF StartsWith(body, pre)
                   THEN SubSeq(body, Len(pre) + 1, Len(body)) ELSE body
    IN  IF content = <<>> THEN <<>> ELSE Split(content, SEP)

RECURSIVE ShownSymbols(_, _)
\* the symbols of all chunks, in chunk order
ShownSymbols(fs, pre) ==
    IF fs = <<>> THEN <<>>
    ELSE ChunkSymbols(Head(fs), pre) \o ShownSymbols(Tail(fs), pre)

NoteAppended(fs) == fs # <<>> /\ Find(fs[Len(fs)], NL, 1) > 0
NoteOwnChunk(fs) == fs # <<>> /\ StartsWith(fs[Len(fs)], NoteHead)

\* the number N of "...and N more", 0 when the output carries no note
NoteCount(fs) ==
    IF fs = <<>> \/ NoteText(fs[Len(fs)]) = <<>> THEN 0
    ELSE LET n == NoteText(fs[Len(fs)])
         IN  StrToInt(SubSeq(n, Len(NoteHead) + 1, Len(n) - Len(NoteTail)))

---------------------------------------------------------------------------
(* Properties of chunk_symbols_into_fields (SpecPack). *)

\* C1: the N of the overflow note (0 without a note) equals the number of
\* input symbols that no output chunk shows.
C1_NoteCountsUnplaced ==
    pk = "done" =>
        NoteCount(fields) = Len(symbols) - Len(ShownSymbols(fields, prefix))

\* C2: the symbols shown by the chunks, in chunk order, are exactly the first
\* processed_count symbols of the input.
C2_ShownIsProcessedPrefix ==
    pk = "done" =>
        ShownSymbols(fields, prefix) = SubSeq(symbols, 1, processed_count)

\* C3: no chunk is longer than MAX_FIELD_CHAR, except a last chunk to which
\* the overflow note was appended.
C3_ChunkWithinCap ==
    pk = "done" =>
        \A i \in 1..Len(fields) :
            \/ Len(fields[i]) <= MAX_FIELD_CHAR
            \/ i = Len(fields) /\ NoteAppended(fields)

\* C4: the number of chunks never exceeds MAX_EMBED_FIELDS, plus one when the
\* overflow note was forced into the last chunk.
C4_ChunkCountBounded ==
    pk = "done" =>
        Len(fields) <= MAX_EMBED_FIELDS + (IF NoteAppended(fields) THEN 1 ELSE 0)

\* C4 witness: a call that filled every chunk slot and carries the note.
C4_Witness ==
    pk = "done" /\ Len(fields) = MAX_EMBED_FIELDS /\ NoteAppended(fields)

\* C16: the packing is greedy: for every two consecutive chunks, the first
\* chunk's text plus ", " plus the first symbol of the second chunk is longer
\* than MAX_FIELD_CHAR, the chunks show the symbols in input order, and
\* the scenario list gives the three chunks "X AAA", "X BBB", "X CCC".
C16_GreedyPacking ==
    pk = "done" =>
        /\ \A i \in 1..(Len(fields) - 1) :
              LET next == ChunkSymbols(fields[i + 1], prefix)
              IN  /\ next # <<>>
                  /\ Len(ChunkBody(fields[i])) + Len(SEP) + Len(next[1])
                        > MAX_FIELD_CHAR
        /\ LET shown == ShownSymbols(fields, prefix)
           IN  shown = SubSeq(symbols, 1, Len(shown))
        /\ (symbols = ScenarioList /\ prefix = <<"X", " ">>) =>
              fields = <<<<"X", " ", "A", "A", "A">>,
                         <<"X", " ", "B", "B", "B">>,
                         <<"X", " ", "C", "C", "C">>>>

\* C16 witness: the scenario list was packed into three chunks.
C16_Witness ==
    /\ pk = "done"
    /\ symbols = ScenarioList
    /\ prefix = <<"X", " ">>
    /\ Len(fields) = 3

\* C17: an overflow note is never a chunk of its own; when there is a note,
\* the output has exactly MAX_EMBED_FIELDS chunks and the note follows a
\* newline at the end of the last one.
C17_NoteOnlyInLastChunk ==
    pk = "done" =>
        /\ ~NoteOwnChunk(fields)
        /\ \A i \in 1..Len(fields) :
              NoteText(fields[i]) # <<>> =>
                  /\ i = Len(fields)
                  /\ Len(fields) = MAX_EMBED_FIELDS
                  /\ NoteText(fields[i]) = Note(NoteCount(fields))
                  /\ NoteCount(fields) >= 1

\* C17 witness: a note reporting at least one symbol, in the last chunk.
C17_Witness ==
    /\ pk = "done"
    /\ fields # <<>>
    /\ NoteText(fields[Len(fields)]) # <<>>
    /\ NoteCount(fields) >= 1

\* C18: every chunk shows at least one symbol after its prefix.
C18_NoPrefixOnlyChunk ==
    pk = "done" =>
        \A i \in 1..Len(fields) : ChunkSymbols(fields[i], prefix) # <<>>

---------------------------------------------------------------------------
(* Spec: the scan loops.                                                   *)
(*                                                                         *)
(* discord.py runs every on_ready event as a task of its own on the one    *)
(* asyncio event loop, so a step of the model is the run of one coroutine  *)
(* from one await to the next.  A loop is suspended at                     *)
(*   "delay"  await asyncio.sleep(REQUEST_SLEEP), line 117                 *)
(*   "send"   await channel.send(embed=embed), line 136                    *)
(*   "sleep"  await asyncio.sleep(SLEEP_SECONDS), line 141                 *)
(* or has left on_ready ("returned", line 109).  client.get_klines is a    *)
(* blocking call, made inside the step.                                    *)

\* sample universes: the duplicate-free lists over two spot symbols
Bases == {<<"E">>, <<"B", "T", "C">>}
SpotSymbols == {b \o QUOTE : b \in Bases}
Universes ==
    {u \in UNION {[1..n -> SpotSymbols] : n \in 0..Cardinality(SpotSymbols)} :
        \A i, j \in 1..Len(u) : u[i] = u[j] => i = j}

\* sample series: three long runs of rising, equal and falling closes
Rising == Flatten(<<<<1, RunLen>>, <<1, RunLen>>, <<2, RunLen>>>>)
Flat == Flatten(<<<<1, RunLen>>, <<1, RunLen>>, <<1, RunLen>>>>)
Falling == Flatten(<<<<2, RunLen>>, <<1, RunLen>>, <<1, RunLen>>>>)

\* the responses the data source gives during a scan
ScanResponses ==
    {r \in Responses : r.kind = "ok" => r.closes \in {Rising, Flat, Falling}}

\* is_aots per response, evaluated once
AotsOf == [r \in ScanResponses |-> is_aots(r)]

\* what happened to a symbol: "failed" (no snapshot), "match", "nomatch"
OutcomeOf ==
    [r \in ScanResponses |->
        IF ~get_indicators(r).avail THEN "failed"
        ELSE IF is_aots(r) THEN "match" ELSE "nomatch"]

Placeholder == <<"No setups detected.">>

\* faulty variant: the packer's output is used for an empty result too
EmbedFields_packerOnly(t2) ==
    LET fs == chunk_symbols_into_fields(t2, DefaultPrefix)
    IN  [k \in 1..Len(fs) |->
           [name |-> IF Len(fs) > 1
                     THEN <<"TIER 2 (part ">> \o IntToStr(k) \o <<")">>
                     ELSE <<"TIER 2">>,
            value |-> fs[k]]]

\* lines 128-134: the fields added to the embed
EmbedFields(t2) ==
    IF t2 # <<>>
    THEN LET fs == chunk_symbols_into_fields(t2, DefaultPrefix)
         IN  [k \in 1..Len(fs) |->
                [name |-> IF Len(fs) > 1
                          THEN <<"TIER 2 (part ">> \o IntToStr(k) \o <<")">>
                          ELSE <<"TIER 2">>,
                 value |-> fs[k]]]
    ELSE <<[name |-> <<"TIER 2">>, value |-> Placeholder]>>

\* the state of on_ready on entry
NewLoop ==
    [pc |-> "entry", cycle |-> 0, idx |-> 0, tier2 |-> <<>>,
     visited |-> <<>>, outcomes |-> <<>>, timer |-> NoTimer, ended |-> "none",
     faults |-> 0, errlog |-> 0, embed |-> <<>>]

\* faulty variant: the inter-cycle sleep sits inside the try and is skipped
Except_nosleep(l) ==
    [l EXCEPT !.errlog = @ + 1, !.ended = "failed",
              !.pc = "sleep", !.timer = NoTimer]

\* faulty variant: a failed channel.send is attempted again at once
Except_retry(l) ==
    IF l.pc = "send"
    THEN [l EXCEPT !.errlog = @ + 1, !.ended = "failed"]
    ELSE [l EXCEPT !.errlog = @ + 1, !.ended = "failed",
                   !.pc = "sleep", !.timer = SLEEP_SECONDS]

\* lines 138-141: the handler logs, then the loop reaches the sleep
Except(l) ==
    [l EXCEPT !.errlog = @ + 1, !.ended = "failed",
              !.pc = "sleep", !.timer = SLEEP_SECONDS]

\* an exception raised inside the try body
Raise(l) == Except([l EXCEPT !.faults = @ + 1])

\* faulty variant: the pacing delay is skipped when the symbol failed
Pacing_successOnly(o) == IF o = "failed" THEN NoTimer ELSE REQUEST_SLEEP

\* line 117: the delay awaited after a symbol
Pacing(o) == REQUEST_SLEEP

\* faulty variant: a match is put in front of the list
Collect_prepend(t2, sym, r) ==
    IF AotsOf[r] THEN <<Replace(sym, QUOTE)>> \o t2 ELSE t2

\* lines 115-116
Collect(t2, sym, r) ==
    IF AotsOf[r] THEN Append(t2, Replace(sym, QUOTE)) ELSE t2

\* faulty variant: a failed symbol raises out of the for loop
AfterSymbol_abort(l, r) ==
    IF OutcomeOf[r] = "failed"
    THEN Raise([l EXCEPT !.idx = @ + 1,
                         !.visited = Append(@, universe[l.idx + 1]),
                         !.outcomes = Append(@, "failed")])
    ELSE [l EXCEPT !.idx = @ + 1,
                   !.tier2 = Collect(@, universe[l.idx + 1], r),
                   !.visited = Append(@, universe[l.idx + 1]),
                   !.outcomes = Append(@, OutcomeOf[r]),
                   !.pc = "delay",
                   !.timer = Pacing(OutcomeOf[r])]

\* lines 114-117: one iteration of the for loop, up to its await
AfterSymbol(l, r) ==
    [l EXCEPT !.idx = @ + 1,
              !.tier2 = Collect(@, universe[l.idx + 1], r),
              !.visited = Append(@, universe[l.idx + 1]),
              !.outcomes = Append(@, OutcomeOf[r]),
              !.pc = "delay",
              !.timer = Pacing(OutcomeOf[r])]

\* lines 119-136: build the embed and call channel.send; fault means that a
\* statement of these lines raised
AfterScan(l, fault) ==
    IF fault THEN Raise(l)
    ELSE [l EXCEPT !.embed = EmbedFields(l.tier2), !.pc = "send",
                   !.timer = NoTimer]

\* faulty variant: tier2 is created once, before the while loop
BeginCycle_keep(l, r, fault) ==
    LET l0 == [l EXCEPT !.cycle = @ + 1, !.idx = 0,
                        !.visited = <<>>, !.outcomes = <<>>, !.embed = <<>>]
    IN  IF universe = <<>> THEN AfterScan(l0, fault) ELSE AfterSymbol(l0, r)

\* lines 111-113, then the body up to its first await
BeginCycle(l, r, fault) ==
    LET l0 == [l EXCEPT !.cycle = @ + 1, !.tier2 = <<>>, !.idx = 0,
                        !.visited = <<>>, !.outcomes = <<>>, !.embed = <<>>]
    IN  IF universe = <<>> THEN AfterScan(l0, fault) ELSE AfterSymbol(l0, r)

RECURSIVE CyclesStarted(_)
\* cycles started so far by all loops together
CyclesStarted(ls) ==
    IF ls = <<>> THEN 0 ELSE Head(ls).cycle + CyclesStarted(Tail(ls))

\* the settings the environment may or may not provide: DISCORD_TOKEN,
\* BINANCE_API_KEY, BINANCE_API_SECRET, PORT, and whether
\* client.get_exchange_info answers
Envs ==
    [token : BOOLEAN, key : BOOLEAN, secret : BOOLEAN, port : BOOLEAN,
     exchange : BOOLEAN]

\* faulty variant: only the chat token is tested
ConfigComplete_tokenOnly(e) == e.token

\* line 23
ConfigComplete(e) == e.token /\ e.key /\ e.secret

Payload == <<"Bot is running!">>

\* the state when the process is started
InitProcess ==
    /\ env \in Envs
    /\ proc = "start"
    /\ web = WebOff
    /\ universe = <<>>
    /\ loops = <<>>
    /\ sent = <<>>
    /\ PackIdle
    /\ ClassIdle

\* the universes loaded when the whole process is followed from its start
LoadedUniverses == {u \in Universes : Len(u) <= 1}

\* the module-level code, lines 18-41: the configuration test raises, or
\* the universe load raises, or spot_symbols is loaded
Import ==
    /\ proc = "start"
    /\ IF ConfigComplete(env) /\ env.exchange
       THEN /\ proc' = "imported"
            /\ universe' \in LoadedUniverses
       ELSE /\ proc' = "crashed"
            /\ universe' = universe
    /\ UNCHANGED <<loops, sent, env, web, packVars, classVars>>

\* lines 172-178 and 150-151: the Flask thread is started, then the bot
Main ==
    /\ proc = "imported"
    /\ proc' = "running"
    /\ web' = [up |-> TRUE,
               port |-> IF env.port THEN EnvPort ELSE DefaultPort,
               reply |-> <<>>]
    /\ UNCHANGED <<universe, loops, sent, env, packVars, classVars>>

\* faulty variant: the reply reports what the scan loop is doing
Home_status ==
    /\ web.up
    /\ web' = [web EXCEPT !.reply =
                  IF \E t \in 1..Len(loops) : loops[t].pc \in {"delay", "send"}
                  THEN <<"Bot is scanning!">> ELSE Payload]
    /\ UNCHANGED <<universe, loops, sent, env, proc, packVars, classVars>>

\* lines 146-148: the Flask thread answers GET /
Home ==
    /\ web.up
    /\ web' = [web EXCEPT !.reply = Payload]
    /\ UNCHANGED <<universe, loops, sent, env, proc, packVars, classVars>>

\* BeginCycle reads r only when the universe has a symbol, and fault only
\* when it has none
Relevant(r, fault) ==
    IF universe = <<>> THEN r = [kind |-> "error"] ELSE fault = FALSE

\* the chat client delivers an on_ready event and bot.get_channel finds the
\* channel (lines 104-117): a scan loop starts
OnReady(r, fault) ==
    /\ proc = "running"
    /\ Len(loops) < MaxReady
    /\ CyclesStarted(loops) < MaxCycles
    /\ Relevant(r, fault)
    /\ loops' = Append(loops, BeginCycle(NewLoop, r, fault))
    /\ UNCHANGED <<universe, sent, env, proc, web, packVars, classVars>>

\* the chat client delivers an on_ready event and bot.get_channel returns
\* None (lines 104-109)
OnReadyNoChannel ==
    /\ proc = "running"
    /\ Len(loops) < MaxReady
    /\ loops' = Append(loops, [NewLoop EXCEPT !.pc = "returned"])
    /\ UNCHANGED <<universe, sent, env, proc, web, packVars, classVars>>

\* the pacing delay of loop t elapses and the for loop has a next symbol
NextSymbol(t, r) ==
    /\ loops[t].pc = "delay"
    /\ loops[t].idx < Len(universe)
    /\ loops' = [loops EXCEPT ![t] = AfterSymbol(@, r)]
    /\ UNCHANGED <<universe, sent, env, proc, web, packVars, classVars>>

\* the pacing delay of loop t elapses and the for loop is exhausted
FinishScan(t, fault) ==
    /\ loops[t].pc = "delay"
    /\ loops[t].idx >= Len(universe)
    /\ loops' = [loops EXCEPT ![t] = AfterScan(@, fault)]
    /\ UNCHANGED <<universe, sent, env, proc, web, packVars, classVars>>

\* channel.send of loop t completes (line 136), delivered or raising
SendDone(t, ok) ==
    /\ loops[t].pc = "send"
    /\ IF ok
       THEN /\ sent' = <<[loop |-> t, cycle |-> loops[t].cycle,
                          fields |-> loops[t].embed]>>
            /\ loops' = [loops EXCEPT ![t] =
                            [@ EXCEPT !.ended = "ok", !.pc = "sleep",
                                      !.timer = SLEEP_SECONDS]]
       ELSE /\ sent' = sent
            /\ loops' = [loops EXCEPT ![t] = Raise(@)]
    /\ UNCHANGED <<universe, env, proc, web, packVars, classVars>>

\* the inter-cycle sleep of loop t elapses (line 141): the next cycle starts
WakeSleep(t, r, fault) ==
    /\ loops[t].pc = "sleep"
    /\ CyclesStarted(loops) < MaxCycles
    /\ Relevant(r, fault)
    /\ loops' = [loops EXCEPT ![t] = BeginCycle(@, r, fault)]
    /\ UNCHANGED <<universe, sent, env, proc, web, packVars, classVars>>

\* the state once startup has succeeded with every setting provided: the
\* universe is loaded, the Flask thread listens, the bot is connecting
Init ==
    /\ env = [token |-> TRUE, key |-> TRUE, secret |-> TRUE, port |-> TRUE,
              exchange |-> TRUE]
    /\ proc = "running"
    /\ web = [up |-> TRUE, port |-> EnvPort, reply |-> <<>>]
    /\ universe \in Universes
    /\ loops = <<>>
    /\ sent = <<>>
    /\ PackIdle
    /\ ClassIdle

Next ==
    \/ \E r \in ScanResponses, fault \in BOOLEAN : OnReady(r, fault)
    \/ OnReadyNoChannel
    \/ \E t \in 1..Len(loops), r \in ScanResponses : NextSymbol(t, r)
    \/ \E t \in 1..Len(loops), fault \in BOOLEAN : FinishScan(t, fault)
    \/ \E t \in 1..Len(loops), ok \in BOOLEAN : SendDone(t, ok)
    \/ \E t \in 1..Len(loops), r \in ScanResponses, fault \in BOOLEAN :
          WakeSleep(t, r, fault)

Spec == Init /\ [][Next]_vars

\* the whole process from its start: the module-level code, __main__, the
\* Flask thread and the bot
\* (NextSymbol needs a second symbol and is never enabled with the
\* universes of LoadedUniverses)
NextProcess ==
    \/ Import
    \/ Main
    \/ Home
    \/ \E r \in ScanResponses, fault \in BOOLEAN : OnReady(r, fault)
    \/ OnReadyNoChannel
    \/ \E t \in 1..Len(loops), fault \in BOOLEAN : FinishScan(t, fault)
    \/ \E t \in 1..Len(loops), ok \in BOOLEAN : SendDone(t, ok)
    \/ \E t \in 1..Len(loops), r \in ScanResponses, fault \in BOOLEAN :
          WakeSleep(t, r, fault)

SpecProcess == InitProcess /\ [][NextProcess]_vars

---------------------------------------------------------------------------
(* Properties of the scan loop (Spec). *)

LoopIds == 1..Len(loops)
InCycle(l) == l.pc \in {"delay", "send"}
IterationDone(l) == l.cycle >= 1 /\ l.pc \in {"send", "sleep"}

\* the display form of a spot symbol: the quote-currency suffix removed
StripSuffix(sym) ==
    IF Len(sym) >= Len(QUOTE)
       /\ SubSeq(sym, Len(sym) - Len(QUOTE) + 1, Len(sym)) = QUOTE
    THEN SubSeq(sym, 1, Len(sym) - Len(QUOTE))
    ELSE sym

RECURSIVE MatchedDisplay(_, _)
\* the display forms of the symbols of u whose outcome is "match", in order
MatchedDisplay(u, outs) ==
    IF u = <<>> \/ outs = <<>> THEN <<>>
    ELSE (IF Head(outs) = "match" THEN <<StripSuffix(Head(u))>> ELSE <<>>)
            \o MatchedDisplay(Tail(u), Tail(outs))

\* C5: when the iteration over the universe has completed, tier2 is the
\* display-normalized subsequence of the universe of the symbols that
\* classified true in this cycle, in universe order.
C5_ResultIsMatchedSubsequence ==
    \A t \in LoopIds :
        IterationDone(loops[t]) =>
            /\ Len(loops[t].outcomes) = Len(universe)
            /\ loops[t].tier2 = MatchedDisplay(universe, loops[t].outcomes)

\* C5 witness: a completed iteration in which two symbols matched.
C5_Witness ==
    \E t \in LoopIds : loops[t].pc = "send" /\ Len(loops[t].tier2) >= 2

\* C6: at most one scan cycle is in progress at any time, and the chat
\* session has at most one caller at a time, whatever on_ready events the
\* chat client delivers.
C6_OneCycleAtATime ==
    /\ Cardinality({t \in LoopIds : InCycle(loops[t])}) <= 1
    /\ Cardinality({t \in LoopIds : loops[t].pc = "send"}) <= 1

\* C7: an exception raised in the try body is logged and leaves the loop
\* suspended in the one asyncio.sleep(SLEEP_SECONDS); a loop starts a cycle
\* only out of that sleep, the cycle numbers go up by one, and the sleep is
\* left only by starting the next cycle.
C7_FailedCycleSleepsThenContinues ==
    [][\A t \in LoopIds :
          /\ loops'[t].faults > loops[t].faults =>
                /\ loops'[t].faults = loops[t].faults + 1
                /\ loops'[t].errlog = loops[t].errlog + 1
                /\ loops'[t].pc = "sleep"
                /\ loops'[t].timer = SLEEP_SECONDS
          /\ loops'[t].cycle # loops[t].cycle =>
                /\ loops'[t].cycle = loops[t].cycle + 1
                /\ loops[t].pc = "sleep"
                /\ loops[t].timer = SLEEP_SECONDS
          /\ (loops[t].pc = "sleep" /\ loops'[t] # loops[t]) =>
                loops'[t].cycle = loops[t].cycle + 1
          /\ loops'[t].errlog = loops'[t].faults]_vars

\* C7 witness: a loop runs its second cycle after its first one failed.
C7_Witness ==
    \E t \in LoopIds :
        /\ loops[t].cycle = 2
        /\ loops[t].ended = "failed"
        /\ loops[t].errlog = 1
        /\ InCycle(loops[t])

\* C8: in every cycle the symbols of the universe are processed once each,
\* in order, whatever the outcome of earlier symbols; a cycle reaches its
\* end only after all of them; a failed symbol is not in tier2.
C8_FailureNeverAbortsScan ==
    \A t \in LoopIds :
        loops[t].cycle >= 1 =>
            /\ loops[t].idx <= Len(universe)
            /\ loops[t].visited = SubSeq(universe, 1, loops[t].idx)
            /\ Len(loops[t].outcomes) = loops[t].idx
            /\ loops[t].pc \in {"send", "sleep"} => loops[t].idx = Len(universe)
            /\ \A i \in 1..Len(loops[t].outcomes) :
                  loops[t].outcomes[i] = "failed" =>
                      \A j \in 1..Len(loops[t].tier2) :
                          loops[t].tier2[j] # StripSuffix(universe[i])

\* C8 witness: a scan that completed although its first symbol failed.
C8_Witness ==
    \E t \in LoopIds :
        /\ loops[t].pc = "send"
        /\ Len(universe) >= 2
        /\ loops[t].outcomes[1] = "failed"

\* C9: a loop that has processed a symbol is suspended in
\* asyncio.sleep(REQUEST_SLEEP), whatever the symbol's outcome, and the next
\* symbol of the cycle is fetched only out of that delay.
C9_PacingAfterEverySymbol ==
    [][/\ \A t \in 1..Len(loops') :
             loops'[t].pc = "delay" =>
                 /\ loops'[t].timer = REQUEST_SLEEP
                 /\ loops'[t].idx >= 1
       /\ \A t \in LoopIds :
             /\ Len(loops'[t].visited) > Len(loops[t].visited) =>
                   /\ Len(loops'[t].visited) = Len(loops[t].visited) + 1
                   /\ loops'[t].pc = "delay"
             /\ (loops'[t].cycle = loops[t].cycle
                    /\ loops'[t].idx # loops[t].idx) =>
                   /\ loops[t].pc = "delay"
                   /\ loops[t].timer = REQUEST_SLEEP]_vars

\* C9 witness: a second symbol was fetched after the first one failed.
C9_Witness ==
    \E t \in LoopIds :
        /\ loops[t].pc = "delay"
        /\ loops[t].idx = 2
        /\ loops[t].outcomes[1] = "failed"

\* C11: a loop leaves channel.send only into the inter-cycle sleep of the
\* same cycle, either with the embed delivered or with the failure logged
\* and nothing delivered; it reaches channel.send only from the scan of the
\* current cycle (a new cycle when it comes out of the sleep), and the embed
\* it then sends is built from this cycle's outcomes alone.
C11_OnePublishAttemptPerCycle ==
    [][\A t \in 1..Len(loops') :
          LET old == IF t \in LoopIds THEN loops[t] ELSE NewLoop
              new == loops'[t]
          IN  /\ (old.pc = "send" /\ new # old) =>
                    /\ new.pc = "sleep"
                    /\ new.timer = SLEEP_SECONDS
                    /\ new.cycle = old.cycle
                    /\ new.embed = old.embed
                    /\ \/ /\ new.faults = old.faults
                          /\ new.errlog = old.errlog
                          /\ sent' = <<[loop |-> t, cycle |-> old.cycle,
                                        fields |-> old.embed]>>
                       \/ /\ new.faults = old.faults + 1
                          /\ new.errlog = old.errlog + 1
                          /\ sent' = sent
              /\ (new.pc = "send" /\ old.pc # "send") =>
                    /\ old.pc \in {"entry", "delay", "sleep"}
                    /\ new.cycle = IF old.pc = "delay" THEN old.cycle
                                   ELSE old.cycle + 1
                    /\ Len(new.outcomes) = Len(universe)
                    /\ new.embed =
                          EmbedFields(MatchedDisplay(universe, new.outcomes))
              /\ (old.pc # "send" \/ new = old) => sent' = sent
                    \/ \E u \in LoopIds : loops[u].pc = "send"]_vars

\* C11 witness: the publish attempt of the first cycle failed: the embed was
\* built, the failure is logged, nothing was delivered and the loop sleeps.
C11_Witness ==
    \E t \in LoopIds :
        /\ loops[t].pc = "sleep"
        /\ loops[t].cycle = 1
        /\ loops[t].ended = "failed"
        /\ loops[t].embed # <<>>
        /\ loops[t].errlog = 1
        /\ sent = <<>>

\* s is an initial part of t
IsPrefix(s, t) == Len(s) <= Len(t) /\ s = SubSeq(t, 1, Len(s))

\* C13: whenever a cycle has so far had the outcomes with which another
\* cycle began (the cycle a loop has just left, or a cycle of another
\* loop), its tier2 is the tier2 that cycle began with; with the same
\* outcomes for the whole universe the embed fields are the same too.
C13_SameResponsesSameResult ==
    [][\A t \in 1..Len(loops'), u \in LoopIds :
          (loops'[t].cycle >= 1 /\ loops[u].cycle >= 1) =>
             /\ IsPrefix(loops'[t].outcomes, loops[u].outcomes) =>
                   IsPrefix(loops'[t].tier2, loops[u].tier2)
             /\ (loops'[t].outcomes = loops[u].outcomes
                    /\ loops'[t].embed # <<>> /\ loops[u].embed # <<>>) =>
                   loops'[t].embed = loops[u].embed]_vars

\* C13 witness: the second cycle of a loop is about to publish the fields
\* its first cycle published, a match among them.
C13_Witness ==
    \E t \in LoopIds :
        /\ loops[t].pc = "send"
        /\ loops[t].cycle = 2
        /\ loops[t].tier2 # <<>>
        /\ sent # <<>>
        /\ sent[1].loop = t
        /\ sent[1].cycle = 1
        /\ sent[1].fields = loops[t].embed

\* C14: the packer returns no chunk for an empty list, and a cycle whose
\* tier2 is empty sends exactly one field, the placeholder text.
C14_EmptyResultPlaceholder ==
    /\ \A p \in PackPrefixes : chunk_symbols_into_fields(<<>>, p) = <<>>
    /\ \A t \in LoopIds :
          (loops[t].pc = "send" /\ loops[t].tier2 = <<>>) =>
             loops[t].embed =
                <<[name |-> <<"TIER 2">>,
                   value |-> <<"No setups detected.">>]>>
    /\ \A t \in LoopIds :
          (loops[t].pc = "sleep" /\ loops[t].tier2 = <<>> /\ sent # <<>>
              /\ sent[1].loop = t /\ sent[1].cycle = loops[t].cycle) =>
             sent[1].fields =
                <<[name |-> <<"TIER 2">>,
                   value |-> <<"No setups detected.">>]>>

\* C14 witness: a cycle over a non-empty universe without a match was
\* published.
C14_Witness ==
    /\ universe # <<>>
    /\ \E t \in LoopIds :
          /\ loops[t].pc = "sleep"
          /\ loops[t].tier2 = <<>>
          /\ sent # <<>>
          /\ sent[1].loop = t
          /\ sent[1].cycle = loops[t].cycle

----------------------------------------------------------------------------
(* Properties of the whole process (SpecProcess). *)

\* C12 as stated: when the chat token, a data-source credential or the
\* listen port is absent, or the universe cannot be loaded, no loop starts a
\* cycle and nothing is published. (The channel identifier is a constant of
\* the program, line 19, and cannot be absent.)
C12_FailFastOnAnyMissingSetting ==
    (~env.token \/ ~env.key \/ ~env.secret \/ ~env.port \/ ~env.exchange) =>
        /\ \A t \in LoopIds : loops[t].cycle = 0
        /\ sent = <<>>

\* C12 amended: when the chat token or a data-source credential is absent or
\* the universe cannot be loaded, the process ends in the module-level code:
\* no Flask thread, no on_ready, nothing published; an absent PORT makes the
\* Flask thread listen on 8080 and stops nothing; an on_ready that cannot
\* resolve the channel returns without a cycle.
C12_FailFastOnCredentialsOrUniverse ==
    /\ (~env.token \/ ~env.key \/ ~env.secret \/ ~env.exchange) =>
          /\ proc \in {"start", "crashed"}
          /\ universe = <<>>
          /\ loops = <<>>
          /\ sent = <<>>
          /\ ~web.up
    /\ (web.up /\ ~env.port) => web.port = DefaultPort
    /\ \A t \in LoopIds : loops[t].pc = "returned" => loops[t].cycle = 0

\* C12 witness: the process ended at line 24 because one credential of the
\* data source is absent.
C12_Witness ==
    /\ proc = "crashed"
    /\ env.token /\ env.key /\ ~env.secret /\ env.exchange

\* C15: a step of the Flask thread replies the fixed text and leaves the
\* universe, the loops and the published embed as they are; the reply is
\* that text in every state, and the thread can answer in every state once
\* it is started.
C15_ResponderIndependent ==
    [][/\ (web.up /\ web' # web) =>
             /\ web'.reply = Payload
             /\ web'.up /\ web'.port = web.port
             /\ UNCHANGED <<universe, loops, sent>>
       /\ web'.reply \in {<<>>, <<"Bot is running!">>}
       /\ web.up => ENABLED Home]_vars

\* C15 witness: the Flask thread has answered and a loop sleeps after a
\* failed cycle while another loop is scanning.
C15_Witness ==
    /\ web.reply = Payload
    /\ \E t \in LoopIds : loops[t].pc = "sleep" /\ loops[t].ended = "failed"
    /\ \E t \in LoopIds : loops[t].pc = "delay"

====
